---- MODULE Spec2Model ----
(***************************************************************************)
(* Image history catalog of What-Was-That-Shit: the SQLite catalog         *)
(* (history_db.py), the overlay's navigation over it (overlay.py) and the  *)
(* "Sort" reconciliation of file names (settings_window.py).               *)
(***************************************************************************)
EXTENDS Integers, Sequences, FiniteSets, TLC

(***************************************************************************)
(* Bounds of the model.                                                    *)
(***************************************************************************)
MaxImages == 3
MaxClock == 2
MaxCounter == 2
MaxDirs == 2
MaxFiles == 3
MaxGaps == 2
NumThreads == 2
MaxCalls == 2
MaxBusyClock == 3

(***************************************************************************)
(* Values.                                                                 *)
(***************************************************************************)
\* SQL NULL in an id column; ids of images start at 1 (AUTOINCREMENT).
Null == 0

\* Python None where a row (dict) is expected.
None == [id |-> 0]

\* A file path: directory, stem, optional _T suffix, extension.  The stem is
\* k = "pad": the 4-digit decimal n ("0002"); k = "raw": the decimal n without
\* padding ("2"); k = "txt": a non-numeric name, number n of its kind.
\* tmp > 0 marks the ".tmp" sibling names the rename pass creates.
Pth(d, k, n, t, e) == [dir |-> d, k |-> k, n |-> n, temp |-> t, ext |-> e, tmp |-> 0]

\* None / empty string where a path is expected.
NoPath == [dir |-> 0, k |-> "none", n |-> 0, temp |-> FALSE, ext |-> "", tmp |-> 0]

\* A key of the overlay's image cache, the string "<kind>:<path>" with kind
\* 'next', 'prev' or 'current'.
Key(kind, path) == [kind |-> kind, path |-> path]

\* None where a cache key is expected.
NoKey == Key("none", NoPath)

\* The paths the catalog operations are called with: files NNNN.png of one
\* year/month directory, as HistoryManager names them.
CatalogPaths == {Pth(1, "pad", n, FALSE, "png") : n \in 0..MaxCounter}

VARIABLES
    images,            \* table images: id -> [file_path, timestamp]
    navigation_order,  \* table navigation_order: image_id -> [prev_id, next_id]
    current_position,  \* current_position.image_id of the single row id = 1
    seq,               \* sqlite_sequence of images (AUTOINCREMENT): last id used
    now,               \* CURRENT_TIMESTAMP, in seconds
    disk,              \* the files on disk: path -> content (named by the path it was written to)
    current_file_path,   \* ImageOverlay.current_file_path
    current_image_path,  \* ImageOverlay._current_image_path
    original_image,      \* ImageOverlay.original_image: the file of the displayed image
    auto_refresh,        \* settings["auto_refresh"]
    sort_pc,             \* where the Sort run stands
    sorted_files,        \* the list _get_sorted_files returned
    path_mapping,        \* the rename plan: a list of [old_path, new_path]
    mi,                  \* position of the second pass in path_mapping
    temp_path,           \* the temporary sibling of the swap under way
    renamed_files,       \* the list _rename_files_with_sequential_numbers returns
    disk0,               \* the files on disk when the Sort run started
    lastCall,          \* the last call made: [op, path, id, ret]
    recent,            \* ids returned by the latest consecutive inserting add_image calls
    prevs,             \* what the navigate('prev') calls that followed them showed
    thr,               \* the threads calling HistoryDB: thread -> its call under way
    write_lock,        \* the thread whose connection holds the write transaction, or 0
    image_cache,       \* ImageOverlay.image_cache: cache key -> the image, by its file
    current_cache_key, \* ImageOverlay.current_cache_key
    pending,           \* the QTimer.singleShot callbacks waiting, oldest first, by their anchor
    path_object,       \* whether current_file_path holds a pathlib.Path rather than a str
    stale,             \* the 'next' keys cached before add_image last linked a new tail
    saved              \* the save_image calls of the threads that returned a path, in order

dbVars == <<images, navigation_order, current_position, seq>>
overlayVars == <<current_file_path, current_image_path, original_image, auto_refresh>>
sortVars == <<sort_pc, sorted_files, path_mapping, mi, temp_path, renamed_files, disk0>>
histVars == <<lastCall, recent, prevs>>
concVars == <<thr, write_lock>>
cacheVars == <<image_cache, current_cache_key, pending, path_object, stale>>
vars == <<images, navigation_order, current_position, seq, now, disk,
          current_file_path, current_image_path, original_image, auto_refresh,
          sort_pc, sorted_files, path_mapping, mi, temp_path, renamed_files, disk0,
          lastCall, recent, prevs, thr, write_lock,
          image_cache, current_cache_key, pending, path_object, stale, saved>>

(***************************************************************************)
(* HistoryDB (history_db.py).  The operations are functions of the         *)
(* database value db = [images, navigation_order, current_position, seq].  *)
(***************************************************************************)
DB == [images |-> images, navigation_order |-> navigation_order,
       current_position |-> current_position, seq |-> seq]

\* _init_db: empty tables and the row current_position(1, NULL).
EmptyDB == [images |-> <<>>, navigation_order |-> <<>>,
            current_position |-> Null, seq |-> 0]

\* A row of images as the dict the methods return.
Row(imgs, i) == [id |-> i, file_path |-> imgs[i].file_path, timestamp |-> imgs[i].timestamp]

\* SELECT id FROM images WHERE id != x ORDER BY timestamp DESC LIMIT 1:
\* the rows the query can return.  SQL leaves the order of rows with equal
\* timestamps open, so every row of the greatest timestamp is a possible result.
MostRecentExcept(imgs, x) ==
    {i \in DOMAIN imgs \ {x} :
        \A j \in DOMAIN imgs \ {x} : imgs[j].timestamp <= imgs[i].timestamp}

\* The possible values of such a query as a scalar: NULL when no row matches.
MostRecentOrNull(imgs, x) ==
    IF MostRecentExcept(imgs, x) = {} THEN {Null} ELSE MostRecentExcept(imgs, x)

\* SELECT id FROM images WHERE file_path = p (file_path is UNIQUE).
IdOfPath(imgs, p) ==
    IF \E i \in DOMAIN imgs : imgs[i].file_path = p
    THEN CHOOSE i \in DOMAIN imgs : imgs[i].file_path = p
    ELSE Null

\* INSERT OR REPLACE INTO navigation_order (image_id, prev_id, next_id).
InsertOrReplace(nav, i, p, n) ==
    (i :> [prev_id |-> p, next_id |-> n]) @@ nav

\* _update_navigation_order(conn, new_image_id); last is the row the
\* "current last image" query returned (Null: no row).
UpdateNavigationOrder(nav, new_image_id, last) ==
    IF last # Null
    THEN InsertOrReplace(
            InsertOrReplace(nav, last,
                            IF last \in DOMAIN nav THEN nav[last].prev_id ELSE Null,
                            new_image_id),
            new_image_id, last, Null)
    ELSE InsertOrReplace(nav, new_image_id, Null, Null)

\* set_current_image(image_id).  locked: another connection holds the write
\* transaction, so BEGIN IMMEDIATE fails with "database is locked" after the
\* busy timeout; the error is caught and False returned.  Otherwise the UPDATE
\* of the row id = 1 is applied, whatever image_id is, and rowcount is 1.
SetCurrentImageOp(db, image_id, locked) ==
    IF locked
    THEN [db |-> db, ret |-> FALSE]
    ELSE [db |-> [db EXCEPT !.current_position = image_id], ret |-> TRUE]

\* AddExisting with the slip of linking the re-added image again as if it
\* were new.
AddExistingRelinked(db, existing, t) ==
    [db |-> [db EXCEPT !.images[existing].timestamp = t,
                       !.navigation_order =
                           UpdateNavigationOrder(db.navigation_order, existing,
                               CHOOSE l \in MostRecentOrNull(db.images, existing) : TRUE)],
     ret |-> existing, waited |-> FALSE]

\* add_image, the branch of a path that has a row: UPDATE images SET
\* timestamp = CURRENT_TIMESTAMP ... WHERE id = existing; return existing.
\* The "with" block commits on the way out.
AddExisting(db, existing, t) ==
    [db |-> [db EXCEPT !.images[existing].timestamp = t],
     ret |-> existing, waited |-> FALSE]

\* add_image, the branch of a new path: INSERT, _update_navigation_order,
\* and set_current_image when current_position is NULL.  set_current_image
\* opens a connection of its own while this one holds the write transaction
\* (isolation_level IMMEDIATE), so it waits out the busy timeout and fails.
AddNew(db, file_path, t, last) ==
    LET image_id == db.seq + 1
        imgs == (image_id :> [file_path |-> file_path, timestamp |-> t]) @@ db.images
        db1 == [db EXCEPT !.images = imgs, !.seq = image_id,
                          !.navigation_order =
                              UpdateNavigationOrder(db.navigation_order, image_id, last)]
        setcur == SetCurrentImageOp(db1, image_id, TRUE)
    IN  IF db1.current_position = Null
        THEN [db |-> setcur.db, ret |-> image_id, waited |-> TRUE]
        ELSE [db |-> db1, ret |-> image_id, waited |-> FALSE]

\* add_image(file_path, ...) at time t; last as in UpdateNavigationOrder.
AddImageOp(db, file_path, t, last) ==
    IF file_path = NoPath
    THEN [db |-> db, ret |-> Null, waited |-> FALSE]
    ELSE IF IdOfPath(db.images, file_path) # Null
    THEN AddExisting(db, IdOfPath(db.images, file_path), t)
    ELSE AddNew(db, file_path, t, last)

\* The rows "the current last image" query of add_image can return once the
\* new row (id seq + 1) is inserted: the rows other than the new one.
LastImageChoices(db) == MostRecentOrNull(db.images, db.seq + 1)

\* cursor.fetchone(): the k-th fetch of a result set.
FetchOne(rows, k) == IF k <= Len(rows) THEN rows[k] ELSE None

\* get_current_image(): the join of images with current_position has at most
\* one row.  The return statement fetches twice: the first fetch decides the
\* conditional, the second is passed to dict(); dict(None) raises TypeError,
\* which the method catches and answers with None.
GetCurrentImage(db) ==
    LET rows == IF db.current_position \in DOMAIN db.images
                THEN <<Row(db.images, db.current_position)>> ELSE <<>>
        first == FetchOne(rows, 1)
        second == FetchOne(rows, 2)
    IN  IF first # None
        THEN (IF second = None THEN None ELSE second)
        ELSE None

\* get_adjacent_image(current_id, direction): the set of possible results.
\* The join yields the linked row when navigation_order has a row for
\* current_id whose prev_id/next_id names a row of images; otherwise the
\* method falls back to the most recent other image.
GetAdjacentImage(db, current_id, direction) ==
    LET nav == db.navigation_order
        link == IF current_id \in DOMAIN nav
                THEN (IF direction = "next" THEN nav[current_id].next_id
                                            ELSE nav[current_id].prev_id)
                ELSE Null
    IN  IF link \in DOMAIN db.images
        THEN {Row(db.images, link)}
        ELSE IF MostRecentExcept(db.images, current_id) = {}
        THEN {None}
        ELSE {Row(db.images, i) : i \in MostRecentExcept(db.images, current_id)}

\* Restriction of a table to the keys in S.
Restrict(f, S) == [x \in (DOMAIN f) \cap S |-> f[x]]

\* The ids cleanup_missing_files collects: rows whose file is not on disk.
ToRemove(imgs, files) == {i \in DOMAIN imgs : imgs[i].file_path \notin files}

\* cleanup_missing_files() with the files on disk; newcur is the value of
\* (SELECT id FROM images ORDER BY timestamp DESC LIMIT 1) after the deletes.
\* Each removed id is deleted from navigation_order and from images; the
\* UPDATE of current_position applies only WHERE image_id IS NULL.
CleanupMissingFilesOp(db, files, newcur) ==
    LET to_remove == ToRemove(db.images, files)
        keep == DOMAIN db.images \ to_remove
    IN  [db |-> [db EXCEPT
                    !.images = Restrict(db.images, keep),
                    !.navigation_order = Restrict(db.navigation_order,
                                                  (DOMAIN db.navigation_order) \ to_remove),
                    !.current_position =
                        IF to_remove # {} /\ db.current_position = Null
                        THEN newcur ELSE db.current_position],
         ret |-> Cardinality(to_remove)]

\* The values the subquery of cleanup_missing_files can have.
NewCurrentChoices(db, files) ==
    MostRecentOrNull(Restrict(db.images, DOMAIN db.images \ ToRemove(db.images, files)), Null)

(***************************************************************************)
(* The catalog as a state machine: calls of the HistoryDB methods, the     *)
(* clock, and files appearing on and vanishing from disk.                  *)
(***************************************************************************)
Files == DOMAIN disk

SetDB(db) ==
    /\ images' = db.images
    /\ navigation_order' = db.navigation_order
    /\ current_position' = db.current_position
    /\ seq' = db.seq

\* The threads that call the catalog.
Threads == 1..NumThreads

\* A thread with no call under way.  While a call runs: pc is its position,
\* attempt and slept the loop of _get_connection, in_tx/tx the open write
\* transaction of its connection and the tables as that transaction sees
\* them; existing, remaining, any_removed, removed are locals of the method.
\* After the call: ret is what it returned (0: None, False or 0), err why it
\* failed, tries how often the statement that met the lock was attempted,
\* stmt_failed whether a statement of the call failed, committed whether
\* the call committed changes of the tables.  calls counts the calls made.
IdleThread ==
    [pc |-> "idle", op |-> "none", path |-> NoPath, id |-> Null, calls |-> 0,
     attempt |-> 0, slept |-> <<>>, in_tx |-> FALSE, tx |-> EmptyDB,
     existing |-> Null, remaining |-> <<>>, any_removed |-> FALSE, removed |-> 0,
     ret |-> Null, err |-> "none", tries |-> 0, stmt_failed |-> FALSE, committed |-> FALSE]

\* The state after construction: _init_db has run, the overlay shows
\* nothing, no Sort run is under way, no thread is in a call.
InitApp ==
    /\ images = EmptyDB.images
    /\ navigation_order = EmptyDB.navigation_order
    /\ current_position = EmptyDB.current_position
    /\ seq = EmptyDB.seq
    /\ now = 0
    /\ current_file_path = NoPath
    /\ current_image_path = NoPath
    /\ original_image = NoPath
    /\ auto_refresh = TRUE
    /\ sort_pc = "idle"
    /\ sorted_files = <<>>
    /\ path_mapping = <<>>
    /\ mi = 0
    /\ temp_path = NoPath
    /\ renamed_files = <<>>
    /\ lastCall = [op |-> "init", path |-> NoPath, id |-> Null, ret |-> Null]
    /\ recent = <<>>
    /\ prevs = <<>>
    /\ thr = [t \in Threads |-> IdleThread]
    /\ write_lock = 0
    /\ image_cache = <<>>
    /\ current_cache_key = NoKey
    /\ pending = <<>>
    /\ path_object = FALSE
    /\ stale = {}
    /\ saved = <<>>

Init ==
    /\ InitApp
    /\ disk = <<>>
    /\ disk0 = {}

\* The last two entries of a sequence of ids, followed by i.
Push(s, i) == IF Len(s) >= 2 THEN <<s[Len(s) - 1], s[Len(s)], i>> ELSE Append(s, i)

\* A call add_image(file_path).  When the nested set_current_image waits for
\* the lock, the busy timeout (5 s) passes before add_image returns.
AddImage(file_path) ==
    \E last \in LastImageChoices(DB) :
        LET r == AddImageOp(DB, file_path, now, last)
            inserted == r.ret # Null /\ r.ret \notin DOMAIN images
        IN  /\ inserted => seq < MaxImages
            /\ r.waited => now < MaxClock
            /\ SetDB(r.db)
            /\ now' = IF r.waited THEN now + 1 ELSE now
            /\ lastCall' = [op |-> "add_image", path |-> file_path, id |-> Null, ret |-> r.ret]
            /\ recent' = IF inserted THEN Push(recent, r.ret) ELSE <<>>
            /\ UNCHANGED <<disk, overlayVars, sortVars, concVars, cacheVars, saved, prevs>>

\* A call set_current_image(image_id) from the application.
SetCurrentImage(image_id) ==
    LET r == SetCurrentImageOp(DB, image_id, FALSE)
    IN  /\ SetDB(r.db)
        /\ lastCall' = [op |-> "set_current_image", path |-> NoPath, id |-> image_id,
                        ret |-> IF r.ret THEN 1 ELSE 0]
        /\ UNCHANGED <<now, disk, recent, overlayVars, sortVars, concVars, cacheVars, saved, prevs>>

\* A call cleanup_missing_files().
CleanupMissingFiles ==
    \E newcur \in NewCurrentChoices(DB, Files) :
        LET r == CleanupMissingFilesOp(DB, Files, newcur)
        IN  /\ SetDB(r.db)
            /\ lastCall' = [op |-> "cleanup_missing_files", path |-> NoPath, id |-> Null,
                            ret |-> r.ret]
            /\ recent' = <<>>
            /\ UNCHANGED <<now, disk, overlayVars, sortVars, concVars, cacheVars, saved, prevs>>

\* A second passes.
Tick ==
    /\ now < MaxClock
    /\ now' = now + 1
    /\ UNCHANGED <<dbVars, disk, overlayVars, sortVars, concVars, cacheVars, saved, histVars>>

\* An image file is written to the history folder (HistoryManager.save_image).
WriteFile(p) ==
    /\ p \notin Files
    /\ disk' = (p :> p) @@ disk
    /\ UNCHANGED <<dbVars, now, overlayVars, sortVars, concVars, cacheVars, saved, histVars>>

\* The user deletes an image file outside the application.
DeleteFile(p) ==
    /\ p \in Files
    /\ disk' = Restrict(disk, Files \ {p})
    /\ UNCHANGED <<dbVars, now, overlayVars, sortVars, concVars, cacheVars, saved, histVars>>

Next ==
    \/ \E p \in CatalogPaths \cup {NoPath} : AddImage(p)
    \/ \E i \in 1..MaxImages : SetCurrentImage(i)
    \/ CleanupMissingFiles
    \/ Tick
    \/ \E p \in CatalogPaths : WriteFile(p)
    \/ \E p \in CatalogPaths : DeleteFile(p)

Spec == Init /\ [][Next]_vars

\* The catalog under add_image and set_current_image calls alone.
NextAdd ==
    \/ \E p \in CatalogPaths \cup {NoPath} : AddImage(p)
    \/ \E i \in 1..MaxImages : SetCurrentImage(i)
    \/ Tick

SpecAdd == Init /\ [][NextAdd]_vars

(***************************************************************************)
(* ImageOverlay (overlay.py): the displayed image and the navigation.      *)
(* The operations are functions of the overlay value ov, the database db   *)
(* and the files on disk.                                                  *)
(***************************************************************************)
OV == [current_file_path |-> current_file_path, current_image_path |-> current_image_path,
       original_image |-> original_image, auto_refresh |-> auto_refresh]

\* _update_navigation_history(file_path): add_image, then set_current_image
\* with the id add_image returned.
UpdateNavigationHistoryOp(db, file_path, t, last) ==
    LET a == AddImageOp(db, file_path, t, last)
        c == SetCurrentImageOp(a.db, a.ret, FALSE)
    IN  [db |-> IF a.ret # Null THEN c.db ELSE a.db, ret |-> a.ret, waited |-> a.waited]

\* set_image(pil_image, force, file_path).  pil_image stands for the image
\* by the file it was loaded from (its filename attribute).
SetImageOp(ov, db, files, pil_image, force, file_path, t, last) ==
    IF ~force /\ ~ov.auto_refresh
    THEN [ov |-> ov, db |-> db, waited |-> FALSE]
    ELSE LET tracked == IF file_path # NoPath /\ file_path \in files THEN file_path
                        ELSE IF pil_image # NoPath /\ pil_image \in files THEN pil_image
                        ELSE NoPath
             h == UpdateNavigationHistoryOp(db, tracked, t, last)
         IN  [ov |-> [ov EXCEPT !.current_file_path = IF tracked # NoPath THEN tracked ELSE @,
                                !.original_image = pil_image],
              db |-> h.db,
              waited |-> h.waited]

\* The order of file names as strings, for the names of the model (n < 10):
\* a padded stem "000n" sorts before an unpadded "n" (n >= 1), which sorts
\* before a non-numeric stem; "." sorts before "_T."; then the extension.
KindRank(k) == IF k = "pad" THEN 0 ELSE IF k = "raw" THEN 1 ELSE 2
ExtRank(e) == IF e = "gif" THEN 0 ELSE IF e = "jpg" THEN 1 ELSE IF e = "png" THEN 2 ELSE 3
NameKey(p) == <<KindRank(p.k), p.n, IF p.temp THEN 1 ELSE 0, ExtRank(p.ext)>>

RECURSIVE LexLess(_, _)
LexLess(a, b) ==
    IF a = <<>> \/ b = <<>> THEN FALSE
    ELSE IF Head(a) # Head(b) THEN Head(a) < Head(b)
    ELSE LexLess(Tail(a), Tail(b))

NameLess(p, q) == LexLess(NameKey(p), NameKey(q))

\* p.name == q.name
SameName(p, q) == [p EXCEPT !.dir = 0] = [q EXCEPT !.dir = 0]

\* The lists a sort by name can produce from the set S: files of the same
\* name keep the order of the directory listing, which is arbitrary.
RECURSIVE SortedByName(_)
SortedByName(S) ==
    IF S = {} THEN {<<>>}
    ELSE UNION {{<<m>> \o rest : rest \in SortedByName(S \ {m})} :
                m \in {x \in S : \A y \in S : ~NameLess(y, x)}}

\* history_dir.rglob over *.png, *.jpg, *.jpeg, *.gif.
HistoryImages(files) ==
    {p \in files : p.tmp = 0 /\ p.ext \in {"png", "jpg", "jpeg", "gif"}}

SetMin(S) == CHOOSE x \in S : \A y \in S : x <= y
Max2(a, b) == IF a >= b THEN a ELSE b
Min2(a, b) == IF a <= b THEN a ELSE b

\* navigate_history: the file to show, given the sorted listing.
NextPath(all_images, current_path, files, direction) ==
    LET matches == {i \in 1..Len(all_images) : SameName(all_images[i], current_path)}
    IN  IF current_path = NoPath \/ current_path \notin files \/ matches = {}
        THEN all_images[1]
        ELSE LET current_idx == SetMin(matches)
                 stepped == IF direction = "prev" THEN Max2(1, current_idx - 1)
                            ELSE Min2(Len(all_images), current_idx + 1)
                 next_idx == IF stepped = current_idx
                             THEN (IF direction = "next" THEN 1 ELSE Len(all_images))
                             ELSE stepped
             IN  all_images[next_idx]

\* navigate_history(direction): navigation by the files of the history folder.
NavigateHistoryOp(ov, db, files, direction, all_images, t, last) ==
    IF all_images = <<>>
    THEN [ov |-> ov, db |-> db, waited |-> FALSE]
    ELSE LET current_path == IF ov.current_image_path # NoPath THEN ov.current_image_path
                             ELSE ov.current_file_path
             next_path == NextPath(all_images, current_path, files, direction)
             si == SetImageOp(ov, db, files, next_path, FALSE, next_path, t, last)
         IN  [ov |-> [si.ov EXCEPT !.current_image_path = next_path],
              db |-> si.db, waited |-> si.waited]

\* The results get_adjacent_image can give navigate.
AdjacentChoices(db, direction) ==
    IF GetCurrentImage(db) # None
    THEN GetAdjacentImage(db, GetCurrentImage(db).id, direction)
    ELSE {None}

\* navigate(direction): through the catalog when get_current_image answers
\* and the adjacent image's file exists, else navigate_history.
NavigateOp(ov, db, files, direction, all_images, adjacent, t, last) ==
    IF /\ ov.current_file_path # NoPath
       /\ GetCurrentImage(db) # None
       /\ adjacent # None
       /\ adjacent.file_path \in files
    THEN LET si == SetImageOp(ov, db, files, adjacent.file_path, FALSE, adjacent.file_path, t, last)
             sc == SetCurrentImageOp(si.db, adjacent.id, FALSE)
         IN  [ov |-> si.ov, db |-> sc.db, waited |-> si.waited]
    ELSE NavigateHistoryOp(ov, db, files, direction, all_images, t, last)

SetOV(ov) ==
    /\ current_file_path' = ov.current_file_path
    /\ current_image_path' = ov.current_image_path
    /\ original_image' = ov.original_image
    /\ auto_refresh' = ov.auto_refresh

\* The effect r of an overlay operation on the state; the operation inserts
\* at most one image.
Apply(r) ==
    /\ r.db.seq <= MaxImages
    /\ r.waited => now < MaxClock
    /\ SetDB(r.db)
    /\ SetOV(r.ov)
    /\ now' = IF r.waited THEN now + 1 ELSE now
    /\ UNCHANGED <<disk, sortVars, concVars, cacheVars, saved>>

\* The application shows the image of the file p (on_new_image after
\* save_image, which sets image.filename): set_image(image, force).
ShowImage(p, force) ==
    \E last \in LastImageChoices(DB) :
        LET r == SetImageOp(OV, DB, Files, p, force, NoPath, now, last)
        IN  /\ Apply(r)
            /\ lastCall' = [op |-> "set_image", path |-> p, id |-> Null, ret |-> Null]
            /\ recent' = IF r.db.seq > seq THEN Push(recent, r.db.seq) ELSE <<>>
            /\ prevs' = <<>>

\* The previous/next button: navigate(direction).
Navigate(direction) ==
    \E last \in LastImageChoices(DB), all_images \in SortedByName(HistoryImages(Files)),
       adjacent \in AdjacentChoices(DB, direction) :
        LET r == NavigateOp(OV, DB, Files, direction, all_images, adjacent, now, last)
            counted == direction = "prev" /\ Len(recent) = 3 /\ Len(prevs) < 2
        IN  /\ Apply(r)
            /\ lastCall' = [op |-> "navigate", path |-> NoPath, id |-> Null, ret |-> Null]
            /\ recent' = IF counted THEN recent ELSE <<>>
            /\ prevs' = IF counted
                        THEN Append(prevs, [shown |-> r.ov.original_image,
                                            current |-> r.db.current_position])
                        ELSE <<>>

\* The left/right arrow key: navigate_history(direction).
NavigateKey(direction) ==
    \E last \in LastImageChoices(DB), all_images \in SortedByName(HistoryImages(Files)) :
        LET r == NavigateHistoryOp(OV, DB, Files, direction, all_images, now, last)
        IN  /\ Apply(r)
            /\ lastCall' = [op |-> "navigate_history", path |-> NoPath, id |-> Null, ret |-> Null]
            /\ recent' = <<>>
            /\ prevs' = <<>>

\* _toggle_auto_refresh
ToggleAutoRefresh ==
    /\ auto_refresh' = ~auto_refresh
    /\ lastCall' = [op |-> "toggle_auto_refresh", path |-> NoPath, id |-> Null, ret |-> Null]
    /\ recent' = <<>>
    /\ prevs' = <<>>
    /\ UNCHANGED <<dbVars, now, disk, current_file_path, current_image_path, original_image, sortVars, concVars, cacheVars, saved>>

\* The overlay over the catalog: images are shown and navigated while files
\* appear in and vanish from the history folder.
NextNav ==
    \/ \E p \in CatalogPaths, force \in BOOLEAN : p \in Files /\ ShowImage(p, force)
    \/ \E d \in {"prev", "next"} : Navigate(d)
    \/ \E d \in {"prev", "next"} : NavigateKey(d)
    \/ ToggleAutoRefresh
    \/ Tick
    \/ \E p \in CatalogPaths : WriteFile(p)
    \/ \E p \in CatalogPaths : DeleteFile(p)

SpecNav == Init /\ [][NextNav]_vars

\* can_go_back / can_go_forward with the pointer cleared when no current
\* image is found.
CanGoOpClearing(ov, db, direction, adjacent) ==
    IF ov.current_file_path = NoPath
    THEN [ov |-> ov, db |-> db, ret |-> FALSE]
    ELSE IF GetCurrentImage(db) = None
    THEN [ov |-> ov, db |-> [db EXCEPT !.current_position = Null], ret |-> FALSE]
    ELSE [ov |-> ov, db |-> db, ret |-> adjacent # None]

\* can_go_back() (direction 'prev') and can_go_forward() (direction 'next'):
\* False without a current file or a current image, else whether
\* get_adjacent_image gave a row; with the overlay and the tables as the
\* calls leave them.
CanGoOp(ov, db, direction, adjacent) ==
    IF ov.current_file_path = NoPath
    THEN [ov |-> ov, db |-> db, ret |-> FALSE]
    ELSE IF GetCurrentImage(db) = None
    THEN [ov |-> ov, db |-> db, ret |-> FALSE]
    ELSE [ov |-> ov, db |-> db, ret |-> adjacent # None]

\* A call can_go_back().
CanGoBack ==
    \E adjacent \in AdjacentChoices(DB, "prev") :
        LET r == CanGoOp(OV, DB, "prev", adjacent)
        IN  /\ SetDB(r.db)
            /\ SetOV(r.ov)
            /\ lastCall' = [op |-> "can_go_back", path |-> NoPath, id |-> Null,
                            ret |-> IF r.ret THEN 1 ELSE 0]
            /\ UNCHANGED <<now, disk, sortVars, concVars, cacheVars, saved, recent, prevs>>

\* A call can_go_forward().
CanGoForward ==
    \E adjacent \in AdjacentChoices(DB, "next") :
        LET r == CanGoOp(OV, DB, "next", adjacent)
        IN  /\ SetDB(r.db)
            /\ SetOV(r.ov)
            /\ lastCall' = [op |-> "can_go_forward", path |-> NoPath, id |-> Null,
                            ret |-> IF r.ret THEN 1 ELSE 0]
            /\ UNCHANGED <<now, disk, sortVars, concVars, cacheVars, saved, recent, prevs>>

\* Images are saved and shown, and the overlay asks whether it can go back
\* or forward.
NextQuery ==
    \/ \E p \in CatalogPaths : WriteFile(p)
    \/ \E p \in CatalogPaths, force \in BOOLEAN : p \in Files /\ ShowImage(p, force)
    \/ CanGoBack
    \/ CanGoForward

SpecQuery == Init /\ [][NextQuery]_vars

(***************************************************************************)
(* The overlay's image cache (overlay.py): _preload_adjacent_images, run   *)
(* from a QTimer.singleShot callback, and _navigate_to_adjacent, which     *)
(* reads the cache.  An image is named by the file it was opened from; the *)
(* files of the model are not GIFs.  nav_history and nav_history_index,    *)
(* which nothing but their own bookkeeping reads, are left out.            *)
(***************************************************************************)
\* self.cache_size
cache_size == 3

\* The anchor of a callback "lambda: self._preload_adjacent_images(
\* self.current_file_path)": current_file_path is read when the timer fires.
CurrentAnchor == [NoPath EXCEPT !.k = "current"]

\* _clear_cache(): every key but current_cache_key is deleted.
ClearCache(cache, cck) == Restrict(cache, {cck})

\* One round of the loop of _preload_adjacent_images: adjacent is what
\* get_adjacent_image answered for the direction.
PreloadDirection(cache, cck, files, direction, adjacent) ==
    IF adjacent = None \/ adjacent.file_path \notin files
    THEN cache
    ELSE LET cache_key == Key(direction, adjacent.file_path)
             stored == (cache_key :> adjacent.file_path) @@ cache
         IN  IF cache_key \in DOMAIN cache THEN cache
             ELSE IF Cardinality(DOMAIN stored) > cache_size
             THEN ClearCache(stored, cck)
             ELSE stored

\* _preload_adjacent_images(file_path): the cache afterwards.  The loop
\* takes 'next', then 'prev'.
PreloadAdjacentImagesOp(cache, cck, db, files, file_path, adj_next, adj_prev) ==
    IF file_path = NoPath \/ IdOfPath(db.images, file_path) = Null
    THEN cache
    ELSE PreloadDirection(PreloadDirection(cache, cck, files, "next", adj_next),
                          cck, files, "prev", adj_prev)

\* What get_adjacent_image can answer _preload_adjacent_images(file_path).
PreloadChoices(db, file_path, direction) ==
    IF file_path = NoPath \/ IdOfPath(db.images, file_path) = Null
    THEN {None}
    ELSE GetAdjacentImage(db, IdOfPath(db.images, file_path), direction)

\* The callbacks set_image schedules (through _update_navigation_history,
\* when add_image returned an id): one, for the path it tracked.
ScheduledBySetImage(ov, files, pil_image, force, file_path) ==
    IF ~force /\ ~ov.auto_refresh THEN <<>>
    ELSE IF file_path # NoPath /\ file_path \in files THEN <<file_path>>
    ELSE IF pil_image # NoPath /\ pil_image \in files THEN <<pil_image>>
    ELSE <<>>

\* What get_adjacent_image can answer _navigate_to_adjacent(direction).
NavigateToAdjacentChoices(ov, db, direction) ==
    PreloadChoices(db, ov.current_file_path, direction)

\* set_image(pil_image, file_path=file_path) with a pathlib.Path for
\* file_path, which exists: the Path becomes the current path and the image
\* is displayed, but add_image cannot bind a Path to its query, fails and
\* returns None, so the tables stay as they are and
\* _update_navigation_history schedules nothing.
SetImagePathObject(ov, pil_image, file_path) ==
    IF ~ov.auto_refresh THEN ov
    ELSE [ov EXCEPT !.current_file_path = file_path, !.original_image = pil_image]

\* _navigate_to_adjacent(direction); is_path tells whether current_file_path
\* holds a Path.  served is the image of the cache the call displayed
\* (NoPath: none).  On a cache hit set_image is given the current path;
\* otherwise it is given Path(adjacent['file_path']).
NavigateToAdjacentOp(ov, is_path, cache, cck, db, files, direction, adjacent, t, last) ==
    LET unchanged == [ov |-> ov, is_path |-> is_path, db |-> db, waited |-> FALSE,
                      cache |-> cache, cck |-> cck, scheduled |-> <<>>, served |-> NoPath]
        cache_key == Key(direction, ov.current_file_path)
    IN  IF ov.current_file_path = NoPath THEN unchanged
        ELSE IF cache_key \in DOMAIN cache
        THEN LET cached_image == cache[cache_key]
                 si == IF is_path /\ ov.current_file_path \in files
                       THEN [ov |-> SetImagePathObject(ov, cached_image, ov.current_file_path),
                             db |-> db, waited |-> FALSE]
                       ELSE SetImageOp(ov, db, files, cached_image, FALSE,
                                       ov.current_file_path, t, last)
                 old_cache_key == Key("current", si.ov.current_file_path)
             IN  [ov |-> si.ov, is_path |-> is_path, db |-> si.db, waited |-> si.waited,
                  cache |-> (old_cache_key :> cached_image) @@ cache,
                  cck |-> old_cache_key,
                  scheduled |-> (IF is_path /\ ov.current_file_path \in files THEN <<>>
                                 ELSE ScheduledBySetImage(ov, files, cached_image, FALSE,
                                                          ov.current_file_path))
                                \o <<CurrentAnchor>>,
                  served |-> cached_image]
        ELSE IF IdOfPath(db.images, ov.current_file_path) = Null \/ adjacent = None
                \/ adjacent.file_path \notin files
        THEN unchanged
        ELSE LET file_path == adjacent.file_path
                 cached_key == Key("current", file_path)
                 image == IF cached_key \in DOMAIN cache THEN cache[cached_key] ELSE file_path
             IN  [ov |-> SetImagePathObject(ov, image, file_path),
                  is_path |-> IF ov.auto_refresh THEN TRUE ELSE is_path,
                  db |-> db, waited |-> FALSE,
                  cache |-> cache, cck |-> cck,
                  scheduled |-> <<file_path>>,
                  served |-> IF cached_key \in DOMAIN cache THEN image ELSE NoPath]

\* The callbacks a handler can leave waiting in the model.
MaxPending == 2

\* The 'next' keys of a cache.
NextKeys(cache) == {k \in DOMAIN cache : k.kind = "next"}

\* The effect r of an overlay operation on the state, with the callbacks it
\* scheduled and the cache as it leaves it.
ApplyTimed(r, cache, cck, scheduled, is_path) ==
    /\ r.db.seq <= MaxImages
    /\ r.waited => now < MaxClock
    /\ Len(pending) + Len(scheduled) <= MaxPending
    /\ SetDB(r.db)
    /\ SetOV(r.ov)
    /\ now' = IF r.waited THEN now + 1 ELSE now
    /\ image_cache' = cache
    /\ current_cache_key' = cck
    /\ pending' = pending \o scheduled
    /\ path_object' = is_path
    /\ stale' = IF r.db.seq > seq THEN NextKeys(cache) ELSE stale \cap DOMAIN cache
    /\ UNCHANGED <<disk, sortVars, concVars, saved>>

\* The application shows the image of the file p: set_image(image, force),
\* with the callback it leaves waiting.
SetImage(p, force) ==
    \E last \in LastImageChoices(DB) :
        LET r == SetImageOp(OV, DB, Files, p, force, NoPath, now, last)
            scheduled == ScheduledBySetImage(OV, Files, p, force, NoPath)
        IN  /\ ApplyTimed(r, image_cache, current_cache_key, scheduled,
                          IF scheduled # <<>> THEN FALSE ELSE path_object)
            /\ lastCall' = [op |-> "set_image", path |-> p, id |-> Null, ret |-> Null]
            /\ recent' = IF r.db.seq > seq THEN Push(recent, r.db.seq) ELSE <<>>
            /\ prevs' = <<>>

\* A call _navigate_to_adjacent(direction); lastCall.path is the cached
\* image it displayed.
NavigateToAdjacent(direction) ==
    \E last \in LastImageChoices(DB),
       adjacent \in NavigateToAdjacentChoices(OV, DB, direction) :
        LET r == NavigateToAdjacentOp(OV, path_object, image_cache, current_cache_key, DB,
                                      Files, direction, adjacent, now, last)
        IN  /\ ApplyTimed(r, r.cache, r.cck, r.scheduled, r.is_path)
            /\ lastCall' = [op |-> "navigate_to_adjacent", path |-> r.served, id |-> Null,
                            ret |-> Null]
            /\ recent' = <<>>
            /\ prevs' = <<>>

\* The oldest waiting timer fires: _preload_adjacent_images(file_path);
\* lastCall.path is the anchor the callback was scheduled for.
PreloadAdjacentImages ==
    /\ pending # <<>>
    /\ LET file_path == IF Head(pending) = CurrentAnchor THEN current_file_path
                        ELSE Head(pending)
       IN  \E adj_next \in PreloadChoices(DB, file_path, "next"),
              adj_prev \in PreloadChoices(DB, file_path, "prev") :
               /\ image_cache' = PreloadAdjacentImagesOp(image_cache, current_cache_key, DB,
                                                         Files, file_path, adj_next, adj_prev)
               /\ stale' = stale \cap DOMAIN image_cache'
    /\ pending' = Tail(pending)
    /\ lastCall' = [op |-> "preload_adjacent_images", path |-> Head(pending), id |-> Null,
                    ret |-> Null]
    /\ UNCHANGED <<dbVars, now, disk, overlayVars, sortVars, concVars, current_cache_key,
                   path_object, recent, prevs, saved>>

\* Images are saved, shown and navigated with the cache, and the timers
\* fire.
NextCache ==
    \/ \E p \in CatalogPaths : WriteFile(p)
    \/ \E p \in CatalogPaths, force \in BOOLEAN : p \in Files /\ SetImage(p, force)
    \/ \E d \in {"prev", "next"} : NavigateToAdjacent(d)
    \/ PreloadAdjacentImages

SpecCache == Init /\ [][NextCache]_vars

(***************************************************************************)
(* The Sort run of the settings window (settings_window.py):               *)
(* _get_sorted_files, then _rename_files_with_sequential_numbers.          *)
(***************************************************************************)
\* The image files a history folder may hold when Sort starts: NNNN.png,
\* NNNN_T.png and NNNN.gif as HistoryManager names them, and files the user
\* put there, with an unpadded number ("1.png") or no number ("img.png").
ReconcilePaths ==
    UNION {{Pth(d, "pad", n, t, "png") : n \in 0..MaxCounter, t \in BOOLEAN}
           \cup {Pth(d, "pad", n, FALSE, "gif") : n \in 0..MaxCounter}
           \cup {Pth(d, "raw", 1, FALSE, "png"), Pth(d, "txt", 1, FALSE, "png")}
           : d \in 1..MaxDirs}

\* All the lists that enumerate the set S once.
RECURSIVE Perms(_)
Perms(S) ==
    IF S = {} THEN {<<>>}
    ELSE UNION {{<<x>> \o rest : rest \in Perms(S \ {x})} : x \in S}

\* os.walk(history_folder): directory after directory, the directories and
\* the files of a directory in the order the file system lists them.
RECURSIVE WalkDirs(_, _)
WalkDirs(dirs, files) ==
    IF dirs = <<>> THEN {<<>>}
    ELSE {a \o b : a \in Perms({f \in files : f.dir = Head(dirs)}),
                   b \in WalkDirs(Tail(dirs), files)}

WalkOrders(files) ==
    UNION {WalkDirs(dirs, files) : dirs \in Perms({f.dir : f \in files})}

\* The tuple _get_sorted_files builds for the file p, the total_files-th
\* file of the walk: int(base_name) without the _T suffix, or
\* 9999 + total_files when the name is no number.
FileEntry(p, total_files) ==
    [dir_path |-> p.dir,
     counter |-> IF p.k \in {"pad", "raw"} THEN p.n ELSE 9999 + total_files,
     ext |-> p.ext,
     is_temporary |-> p.temp,
     full_path |-> p]

\* files.sort(key = counter) is stable: e goes behind the entries whose
\* counter is not greater.
RECURSIVE InsertByCounter(_, _)
InsertByCounter(e, s) ==
    IF s = <<>> THEN <<e>>
    ELSE IF s[Len(s)].counter <= e.counter THEN Append(s, e)
    ELSE Append(InsertByCounter(e, SubSeq(s, 1, Len(s) - 1)), s[Len(s)])

\* _get_sorted_files, given the walk: the image files, sorted by counter.
RECURSIVE SortedFrom(_, _, _)
SortedFrom(walk, i, acc) ==
    IF i > Len(walk) THEN acc
    ELSE IF walk[i].tmp # 0 \/ walk[i].ext \notin {"png", "jpg", "jpeg", "gif", "bmp"}
    THEN SortedFrom(walk, i + 1, acc)
    ELSE SortedFrom(walk, i + 1, InsertByCounter(FileEntry(walk[i], i), acc))

GetSortedFiles(walk) == SortedFrom(walk, 1, <<>>)

\* os.path.join(dir_path, f"{idx:04d}.{ext}")
NewPath(dir_path, idx, ext) == Pth(dir_path, "pad", idx, FALSE, ext)

\* The probe for the next available number: -1 stands for the RuntimeError.
RECURSIVE ProbeFree(_, _, _, _, _)
ProbeFree(dir_path, ext, counter, seen_paths, files) ==
    IF NewPath(dir_path, counter, ext) \notin files
       /\ NewPath(dir_path, counter, ext) \notin seen_paths
    THEN counter
    ELSE IF counter + 1 > 9999 THEN -1
    ELSE ProbeFree(dir_path, ext, counter + 1, seen_paths, files)

\* The target index of the file at position idx (from 0) of the list.
TargetIndex(e, idx, seen_paths, files) ==
    IF NewPath(e.dir_path, idx, e.ext) \in seen_paths
    THEN ProbeFree(e.dir_path, e.ext, idx + 1, seen_paths, files)
    ELSE idx

\* First pass of _rename_files_with_sequential_numbers from position i on:
\* the rename plan, in the order of the list.
RECURSIVE PlanFrom(_, _, _, _, _)
PlanFrom(files_list, i, seen_paths, mapping, files) ==
    IF i > Len(files_list) THEN [path_mapping |-> mapping, error |-> FALSE]
    ELSE LET e == files_list[i]
             idx == i - 1
             target == TargetIndex(e, idx, seen_paths, files)
             new_path == NewPath(e.dir_path, target, e.ext)
         IN  IF e.is_temporary
             THEN PlanFrom(files_list, i + 1, seen_paths, mapping, files)
             ELSE IF e.full_path = NewPath(e.dir_path, idx, e.ext)
             THEN PlanFrom(files_list, i + 1,
                           seen_paths \cup {NewPath(e.dir_path, idx, e.ext)}, mapping, files)
             ELSE IF target = -1
             THEN [path_mapping |-> mapping, error |-> TRUE]
             ELSE PlanFrom(files_list, i + 1, seen_paths \cup {new_path},
                           Append(mapping, [old_path |-> e.full_path, new_path |-> new_path]),
                           files)

RenamePlan(files_list, files) == PlanFrom(files_list, 1, {}, <<>>, files)

\* f"{new_path}.tmp", then f"{new_path}.{counter}.tmp" while the name is taken.
RECURSIVE TempPathFrom(_, _, _)
TempPathFrom(new_path, k, files) ==
    IF [new_path EXCEPT !.tmp = k] \in files
    THEN TempPathFrom(new_path, k + 1, files)
    ELSE [new_path EXCEPT !.tmp = k]

TempPath(new_path, files) == TempPathFrom(new_path, 1, files)

\* shutil.move(src, dst) of an existing file src.
Move(d, src, dst) ==
    [q \in ((DOMAIN d) \ {src}) \cup {dst} |-> IF q = dst THEN d[src] ELSE d[q]]

\* os.remove(path)
Remove(d, path) == Restrict(d, (DOMAIN d) \ {path})

\* Sort is started: the scan and the first pass.
StartSort ==
    /\ sort_pc = "idle"
    /\ \E walk \in WalkOrders(Files) :
          LET plan == RenamePlan(GetSortedFiles(walk), Files)
          IN  /\ sorted_files' = GetSortedFiles(walk)
              /\ path_mapping' = plan.path_mapping
              /\ sort_pc' = IF plan.error THEN "error" ELSE "rename"
    /\ mi' = 1
    /\ renamed_files' = <<>>
    /\ UNCHANGED <<dbVars, now, disk, overlayVars, temp_path, disk0, histVars, concVars, cacheVars, saved>>

\* Second pass, one entry of the plan: either the target is free and the
\* file is moved, or the occupant of the target is moved to a temporary
\* sibling first.
RenameNext ==
    /\ sort_pc = "rename"
    /\ mi <= Len(path_mapping)
    /\ LET old_path == path_mapping[mi].old_path
           new_path == path_mapping[mi].new_path
       IN  IF new_path \in Files /\ old_path # new_path
           THEN /\ temp_path' = TempPath(new_path, Files)
                /\ disk' = Move(disk, new_path, TempPath(new_path, Files))
                /\ sort_pc' = "swap_occupant_moved"
                /\ UNCHANGED <<mi, renamed_files>>
           ELSE /\ IF old_path \in Files
                   THEN /\ disk' = Move(disk, old_path, new_path)
                        /\ renamed_files' = Append(renamed_files, <<old_path, new_path>>)
                   ELSE UNCHANGED <<disk, renamed_files>>
                /\ mi' = mi + 1
                /\ UNCHANGED <<sort_pc, temp_path>>
    /\ UNCHANGED <<dbVars, now, overlayVars, sorted_files, path_mapping, disk0, histVars, concVars, cacheVars, saved>>

\* The swap, second step: the source is moved into place; if that fails the
\* occupant is moved back.
SwapMoveSource ==
    /\ sort_pc = "swap_occupant_moved"
    /\ LET old_path == path_mapping[mi].old_path
           new_path == path_mapping[mi].new_path
       IN  IF old_path \in Files
           THEN /\ disk' = Move(disk, old_path, new_path)
                /\ renamed_files' = Append(renamed_files, <<old_path, new_path>>)
                /\ sort_pc' = "swap_source_moved"
                /\ UNCHANGED mi
           ELSE /\ disk' = IF temp_path \in Files THEN Move(disk, temp_path, new_path) ELSE disk
                /\ sort_pc' = "rename"
                /\ mi' = mi + 1
                /\ UNCHANGED renamed_files
    /\ UNCHANGED <<dbVars, now, overlayVars, sorted_files, path_mapping, temp_path, disk0, histVars, concVars, cacheVars, saved>>

\* The swap, last step: os.remove(temp_path).
SwapRemoveTemp ==
    /\ sort_pc = "swap_source_moved"
    /\ disk' = Remove(disk, temp_path)
    /\ sort_pc' = "rename"
    /\ mi' = mi + 1
    /\ UNCHANGED <<dbVars, now, overlayVars, sorted_files, path_mapping, temp_path,
                   renamed_files, disk0, histVars, concVars, cacheVars, saved>>

\* The second pass is through: renamed_files is returned.
FinishSort ==
    /\ sort_pc = "rename"
    /\ mi > Len(path_mapping)
    /\ sort_pc' = "done"
    /\ UNCHANGED <<dbVars, now, disk, overlayVars, sorted_files, path_mapping, mi, temp_path,
                   renamed_files, disk0, histVars, concVars, cacheVars, saved>>

\* Sort over a history folder of up to MaxFiles image files.
InitReconcile ==
    /\ InitApp
    /\ \E S \in SUBSET ReconcilePaths :
          /\ Cardinality(S) <= MaxFiles
          /\ disk = [p \in S |-> p]
          /\ disk0 = S

NextReconcile ==
    \/ StartSort
    \/ RenameNext
    \/ SwapMoveSource
    \/ SwapRemoveTemp
    \/ FinishSort

SpecReconcile == InitReconcile /\ [][NextReconcile]_vars

\* Sort is started again after a run that went through: the scan and the
\* first pass over the folder as the run before left it.
SortAgain ==
    /\ sort_pc = "done"
    /\ \E walk \in WalkOrders(Files) :
          LET plan == RenamePlan(GetSortedFiles(walk), Files)
          IN  /\ sorted_files' = GetSortedFiles(walk)
              /\ path_mapping' = plan.path_mapping
              /\ sort_pc' = IF plan.error THEN "error" ELSE "rename"
    /\ mi' = 1
    /\ renamed_files' = <<>>
    /\ disk0' = Files
    /\ lastCall' = [op |-> "sort_again", path |-> NoPath, id |-> Null, ret |-> Null]
    /\ UNCHANGED <<dbVars, now, disk, overlayVars, temp_path, recent, prevs, concVars, cacheVars, saved>>

\* Sort runs one after the other over a history folder.
NextReconcileAgain ==
    \/ StartSort
    \/ RenameNext
    \/ SwapMoveSource
    \/ SwapRemoveTemp
    \/ FinishSort
    \/ SortAgain

SpecReconcileAgain == InitReconcile /\ [][NextReconcileAgain]_vars

(***************************************************************************)
(* sort_history_files (settings_window.py): the Sort button.  The catalog  *)
(* is read, the files are renamed, and the catalog rows of the renamed     *)
(* files are given their new paths.                                        *)
(***************************************************************************)
\* UPDATE images SET file_path = new_path WHERE file_path = old_path.
\* file_path is UNIQUE: when another row holds new_path the statement fails
\* with IntegrityError, which the loop logs and passes over.
UpdateFilePath(imgs, old_path, new_path) ==
    LET i == IdOfPath(imgs, old_path)
    IN  IF i = Null THEN imgs
        ELSE IF \E j \in DOMAIN imgs : j # i /\ imgs[j].file_path = new_path THEN imgs
        ELSE [imgs EXCEPT ![i].file_path = new_path]

\* The loop over renamed_files from position i on.
RECURSIVE UpdateDatabase(_, _, _)
UpdateDatabase(imgs, renamed, i) ==
    IF i > Len(renamed) THEN imgs
    ELSE UpdateDatabase(UpdateFilePath(imgs, renamed[i][1], renamed[i][2]), renamed, i + 1)

\* Sort is pressed while the catalog has rows and the folder has image
\* files: the scan and the first pass of the rename.
SortBegin ==
    /\ images # <<>>
    /\ \E walk \in WalkOrders(Files) : GetSortedFiles(walk) # <<>>
    /\ StartSort

\* Sort is pressed while the catalog has no row or the folder no image file:
\* "No files to sort", nothing is renamed.
SortNoFiles ==
    /\ sort_pc = "idle"
    /\ images = <<>> \/ \A walk \in WalkOrders(Files) : GetSortedFiles(walk) = <<>>
    /\ sort_pc' = "no_files"
    /\ UNCHANGED <<dbVars, now, disk, overlayVars, sorted_files, path_mapping, mi, temp_path,
                   renamed_files, disk0, histVars, concVars, cacheVars, saved>>

\* The renames are through and nothing was renamed: rollback,
\* "No files needed to be renamed".
SortNothingRenamed ==
    /\ sort_pc = "done"
    /\ renamed_files = <<>>
    /\ sort_pc' = "no_rename"
    /\ UNCHANGED <<dbVars, now, disk, overlayVars, sorted_files, path_mapping, mi, temp_path,
                   renamed_files, disk0, histVars, concVars, cacheVars, saved>>

\* The renames are through: the rows are updated, the transaction is
\* committed and "Successfully renamed n files" is shown.
SortUpdateDatabase ==
    /\ sort_pc = "done"
    /\ renamed_files # <<>>
    /\ images' = UpdateDatabase(images, renamed_files, 1)
    /\ sort_pc' = "success"
    /\ UNCHANGED <<navigation_order, current_position, seq, now, disk, overlayVars,
                   sorted_files, path_mapping, mi, temp_path, renamed_files, disk0, histVars, concVars, cacheVars, saved>>

\* The injective lists of at most n elements of the set S.
RECURSIVE ListsOf(_, _)
ListsOf(S, n) ==
    IF n = 0 THEN {<<>>}
    ELSE {<<>>} \cup UNION {{<<x>> \o rest : rest \in ListsOf(S \ {x}, n - 1)} : x \in S}

\* A catalog that holds the paths of the list s, added in that order within
\* one second after set_current_image(1).
CatalogOf(s) ==
    [images |-> [i \in 1..Len(s) |-> [file_path |-> s[i], timestamp |-> 0]],
     navigation_order |-> [i \in 1..Len(s) |->
                              [prev_id |-> IF i = 1 THEN Null ELSE i - 1,
                               next_id |-> IF i = Len(s) THEN Null ELSE i + 1]],
     current_position |-> IF s = <<>> THEN Null ELSE 1,
     seq |-> Len(s)]

\* Sort over a history folder of up to MaxFiles image files of which the
\* catalog holds up to MaxImages, each catalog path naming a file on disk.
InitSort ==
    /\ \E S \in SUBSET ReconcilePaths :
          /\ Cardinality(S) <= MaxFiles
          /\ disk = [p \in S |-> p]
          /\ disk0 = S
          /\ \E s \in ListsOf(S, MaxImages) :
                /\ images = CatalogOf(s).images
                /\ navigation_order = CatalogOf(s).navigation_order
                /\ current_position = CatalogOf(s).current_position
                /\ seq = CatalogOf(s).seq
    /\ now = 0
    /\ current_file_path = NoPath
    /\ current_image_path = NoPath
    /\ original_image = NoPath
    /\ auto_refresh = TRUE
    /\ sort_pc = "idle"
    /\ sorted_files = <<>>
    /\ path_mapping = <<>>
    /\ mi = 0
    /\ temp_path = NoPath
    /\ renamed_files = <<>>
    /\ lastCall = [op |-> "init", path |-> NoPath, id |-> Null, ret |-> Null]
    /\ recent = <<>>
    /\ prevs = <<>>
    /\ thr = [t \in Threads |-> IdleThread]
    /\ write_lock = 0
    /\ image_cache = <<>>
    /\ current_cache_key = NoKey
    /\ pending = <<>>
    /\ path_object = FALSE
    /\ stale = {}
    /\ saved = <<>>

NextSort ==
    \/ SortBegin
    \/ SortNoFiles
    \/ RenameNext
    \/ SwapMoveSource
    \/ SwapRemoveTemp
    \/ FinishSort
    \/ SortNothingRenamed
    \/ SortUpdateDatabase

SpecSort == InitSort /\ [][NextSort]_vars

(***************************************************************************)
(* HistoryManager (history.py): file names of saved images.                *)
(***************************************************************************)
\* The largest counter of a file name: 9999 in the code (4 digits), scaled
\* down here so that a directory with every counter in use is small.
CounterLimit == 4

\* used_counters with the test of the stem narrowed to four digits.
UsedCountersPadded(files, d) ==
    {p.n : p \in {q \in files : q.dir = d /\ q.tmp = 0 /\ q.ext # "" /\ q.k = "pad"}}

\* used_counters of _generate_filename: the stems of the files *.* of the
\* directory (a name without a dot, ext = "", does not match the pattern),
\* without a _T suffix, that int() parses.
UsedCounters(files, d) ==
    {p.n : p \in {q \in files : q.dir = d /\ q.tmp = 0 /\ q.ext # "" /\ q.k \in {"pad", "raw"}}}

\* The loop with the counter test off by one.
RECURSIVE FirstFreeShort(_, _)
FirstFreeShort(used_counters, counter) ==
    IF counter \notin used_counters THEN counter
    ELSE IF counter + 1 >= CounterLimit THEN -1
    ELSE FirstFreeShort(used_counters, counter + 1)

\* The loop "while counter in used_counters: counter += 1", which raises
\* RuntimeError (-1 here) once the counter exceeds the largest counter.
RECURSIVE FirstFree(_, _)
FirstFree(used_counters, counter) ==
    IF counter \notin used_counters THEN counter
    ELSE IF counter + 1 > CounterLimit THEN -1
    ELSE FirstFree(used_counters, counter + 1)

\* _generate_filename(file_type, is_temporary) in the month directory d:
\* the path directory / filename, or NoPath for the RuntimeError.
GenerateFilename(files, d, file_type, is_temporary) ==
    LET counter == FirstFree(UsedCounters(files, d), 0)
    IN  IF counter = -1 THEN NoPath
        ELSE Pth(d, "pad", counter, is_temporary, file_type)

\* save_image(image, file_type) without app_instance, as on_new_image calls
\* it: the path written and returned, or NoPath where None is returned (the
\* image is not valid, or _generate_filename raised).
SaveImageOp(files, d, valid, file_type, is_temporary) ==
    IF ~valid THEN NoPath
    ELSE GenerateFilename(files, d, file_type, is_temporary)

\* A call save_image(image, file_type, is_temporary) in the month directory 1.
SaveImage(valid, file_type, is_temporary) ==
    LET file_path == SaveImageOp(Files, 1, valid, file_type, is_temporary)
    IN  /\ disk' = IF file_path = NoPath THEN disk
                   ELSE [q \in Files \cup {file_path} |->
                            IF q = file_path THEN file_path ELSE disk[q]]
        /\ lastCall' = [op |-> "save_image", path |-> file_path, id |-> Null, ret |-> Null]
        /\ UNCHANGED <<dbVars, now, overlayVars, sortVars, concVars, cacheVars, saved, recent, prevs>>

\* A month directory that holds a file for every counter but up to MaxGaps
\* of them: NNNN.png, every other one a temporary NNNN_T.png; with or without
\* a file of a non-numeric name, with or without a file "1.png", and with or
\* without a file "0002" whose name has no extension.
InitSave ==
    /\ InitApp
    /\ disk0 = {}
    /\ \E gaps \in SUBSET (0..CounterLimit), other \in SUBSET {"raw", "txt"},
          bare \in SUBSET {Pth(1, "pad", 2, FALSE, "")} :
          /\ Cardinality(gaps) <= MaxGaps
          /\ disk = LET S == {Pth(1, "pad", n, n % 2 = 1, "png") : n \in (0..CounterLimit) \ gaps}
                             \cup {Pth(1, k, 1, FALSE, "png") : k \in other}
                             \cup bare
                    IN  [p \in S |-> p]

NextSave ==
    \E valid \in BOOLEAN, file_type \in {"png", "gif"}, is_temporary \in BOOLEAN :
        SaveImage(valid, file_type, is_temporary)

SpecSave == InitSave /\ [][NextSave]_vars

\* save_image called from a thread, up to the return of _generate_filename:
\* the image is validated, the directory is listed and the counter chosen.
\* A call that returns None here (image not valid, RuntimeError) ends.
SaveGenerate(t, valid, file_type, is_temporary) ==
    LET file_path == SaveImageOp(Files, 1, valid, file_type, is_temporary)
    IN  /\ thr[t].pc = "idle"
        /\ thr[t].calls < MaxCalls
        /\ thr' = [thr EXCEPT ![t] =
                      [IdleThread EXCEPT !.op = "save_image", !.calls = thr[t].calls + 1,
                                         !.path = file_path,
                                         !.pc = IF file_path = NoPath THEN "idle"
                                                ELSE "save_write"]]
        /\ UNCHANGED <<dbVars, now, disk, overlayVars, sortVars, histVars, cacheVars,
                       write_lock, saved>>

\* save_image, the rest: image.save(file_path), which creates the file or
\* replaces the one of that name, and return str(file_path).
SaveWrite(t) ==
    LET file_path == thr[t].path
    IN  /\ thr[t].pc = "save_write"
        /\ disk' = [q \in Files \cup {file_path} |->
                       IF q = file_path THEN file_path ELSE disk[q]]
        /\ saved' = Append(saved, [thread |-> t, path |-> file_path,
                                   replaced |-> file_path \in Files])
        /\ thr' = [thr EXCEPT ![t].pc = "idle"]
        /\ UNCHANGED <<dbVars, now, overlayVars, sortVars, histVars, cacheVars, write_lock>>

\* Threads saving images into one month directory, each thread making up
\* to MaxCalls calls.
NextSaveConc ==
    \/ \E t \in Threads, valid \in BOOLEAN, file_type \in {"png", "gif"},
          is_temporary \in BOOLEAN : SaveGenerate(t, valid, file_type, is_temporary)
    \/ \E t \in Threads : SaveWrite(t)

SpecSaveConc == InitSave /\ [][NextSaveConc]_vars

(***************************************************************************)
(* HistoryDB called from several threads.  Every call opens a connection   *)
(* of its own (_get_connection).  A connection begins a write transaction  *)
(* with BEGIN IMMEDIATE before its first INSERT/UPDATE/DELETE              *)
(* (isolation_level 'IMMEDIATE'); SQLite grants it to one connection at a  *)
(* time and lets the others wait for busy_timeout (5 s) before they fail   *)
(* with "database is locked".  Reads see the committed tables (WAL).       *)
(***************************************************************************)
\* _get_connection: max_retries and retry_delay (in ms).
max_retries == 3
retry_delay == 100

\* The first statement of a method once it has its connection.
FirstPc(op) ==
    IF op = "add_image" THEN "add_select"
    ELSE IF op = "set_current_image" THEN "set_write"
    ELSE "cl_select"

\* The thread record after a call returned.
Finished(c, ret, err, tries, stmt_failed, committed) ==
    [IdleThread EXCEPT !.op = c.op, !.calls = c.calls, !.slept = c.slept,
                       !.ret = ret, !.err = err,
                       !.tries = tries, !.stmt_failed = stmt_failed,
                       !.committed = committed]

\* One round of the loop of _get_connection for the call c: connect and the
\* PRAGMAs either succeed, or raise "database is locked" (locked).  The
\* error is retried after retry_delay * 2 ** attempt while
\* attempt < max_retries - 1, then raised; the method catches it and returns
\* None, False or 0.
GetConnectionOp(c, locked) ==
    IF ~locked THEN [c EXCEPT !.pc = FirstPc(c.op)]
    ELSE IF c.attempt < max_retries - 1
    THEN [c EXCEPT !.attempt = c.attempt + 1,
                   !.slept = Append(c.slept, retry_delay * (2 ^ c.attempt))]
    ELSE Finished(c, Null, "locked", c.attempt + 1, TRUE, FALSE)

\* The two DELETEs of cleanup_missing_files for img_id.
DeleteRows(db, img_id) ==
    [db EXCEPT !.images = Restrict(db.images, (DOMAIN db.images) \ {img_id}),
               !.navigation_order = Restrict(db.navigation_order,
                                             (DOMAIN db.navigation_order) \ {img_id})]

\* The UPDATE of current_position at the end of cleanup_missing_files.
UpdateCurrentPosition(db, newcur) ==
    [db EXCEPT !.current_position = IF db.current_position = Null THEN newcur ELSE @]

\* The ids of S in ascending order (the order of SELECT id ... FROM images).
RECURSIVE Ascending(_)
Ascending(S) ==
    IF S = {} THEN <<>> ELSE <<SetMin(S)>> \o Ascending(S \ {SetMin(S)})

\* A thread calls a method of HistoryDB.
ThreadCall(t, op, file_path, image_id) ==
    /\ thr[t].pc = "idle"
    /\ thr[t].calls < MaxCalls
    /\ thr' = [thr EXCEPT ![t] = [IdleThread EXCEPT !.pc = "connect", !.op = op,
                                                    !.calls = thr[t].calls + 1,
                                                    !.path = file_path, !.id = image_id]]
    /\ UNCHANGED <<dbVars, now, disk, overlayVars, sortVars, histVars, cacheVars, saved, write_lock>>

\* _get_connection, one round of its loop.
GetConnection(t, locked) ==
    /\ thr[t].pc = "connect"
    /\ thr' = [thr EXCEPT ![t] = GetConnectionOp(thr[t], locked)]
    /\ UNCHANGED <<dbVars, now, disk, overlayVars, sortVars, histVars, cacheVars, saved, write_lock>>

\* add_image: SELECT id FROM images WHERE file_path = ?
AddSelect(t) ==
    /\ thr[t].pc = "add_select"
    /\ thr' = [thr EXCEPT ![t].existing = IdOfPath(images, thr[t].path),
                          ![t].pc = "add_write"]
    /\ UNCHANGED <<dbVars, now, disk, overlayVars, sortVars, histVars, cacheVars, saved, write_lock>>

\* add_image, from its first write on, when the write transaction is free.
\* An existing row is updated and the method returns (commit).  Otherwise
\* the INSERT either violates UNIQUE (another call inserted the path since
\* the SELECT: IntegrityError, rollback, None), or the row is inserted and
\* linked; with current_position set the method commits and returns, with
\* current_position NULL it calls set_current_image and holds the
\* transaction meanwhile.
AddWrite(t) ==
    /\ thr[t].pc = "add_write"
    /\ write_lock = 0
    /\ IF thr[t].existing # Null
       THEN /\ SetDB(IF thr[t].existing \in DOMAIN images
                     THEN AddExisting(DB, thr[t].existing, now).db ELSE DB)
            /\ thr' = [thr EXCEPT ![t] = Finished(thr[t], thr[t].existing, "none", 0, FALSE, TRUE)]
            /\ UNCHANGED write_lock
       ELSE IF IdOfPath(images, thr[t].path) # Null
       THEN /\ thr' = [thr EXCEPT ![t] = Finished(thr[t], Null, "integrity", 1, TRUE, FALSE)]
            /\ UNCHANGED <<dbVars, write_lock>>
       ELSE /\ seq < MaxImages
            /\ \E last \in LastImageChoices(DB) :
                  LET r == AddNew(DB, thr[t].path, now, last)
                  IN  IF r.waited
                      THEN /\ thr' = [thr EXCEPT ![t].pc = "add_nested", ![t].in_tx = TRUE,
                                                 ![t].tx = r.db]
                           /\ write_lock' = t
                           /\ UNCHANGED dbVars
                      ELSE /\ SetDB(r.db)
                           /\ thr' = [thr EXCEPT ![t] = Finished(thr[t], r.ret, "none", 0, FALSE, TRUE)]
                           /\ UNCHANGED write_lock
    /\ UNCHANGED <<now, disk, overlayVars, sortVars, histVars, cacheVars, saved>>

\* add_image: the set_current_image it called has waited out the busy
\* timeout and returned False; add_image commits and returns the new id.
AddNested(t) ==
    /\ thr[t].pc = "add_nested"
    /\ now < MaxBusyClock
    /\ now' = now + 1
    /\ SetDB(thr[t].tx)
    /\ write_lock' = 0
    /\ thr' = [thr EXCEPT ![t] = Finished(thr[t], thr[t].tx.seq, "none", 1, TRUE, TRUE)]
    /\ UNCHANGED <<disk, overlayVars, sortVars, histVars, cacheVars, saved>>

\* set_current_image when the write transaction is free: UPDATE, commit.
SetWrite(t) ==
    /\ thr[t].pc = "set_write"
    /\ write_lock = 0
    /\ SetDB(SetCurrentImageOp(DB, thr[t].id, FALSE).db)
    /\ thr' = [thr EXCEPT ![t] = Finished(thr[t], 1, "none", 0, FALSE, TRUE)]
    /\ UNCHANGED <<now, disk, overlayVars, sortVars, histVars, cacheVars, saved, write_lock>>

\* cleanup_missing_files: SELECT id, file_path FROM images and the loop
\* that collects to_remove.
CleanupSelect(t) ==
    /\ thr[t].pc = "cl_select"
    /\ thr' = [thr EXCEPT ![t].remaining = Ascending(ToRemove(images, Files)),
                          ![t].any_removed = ToRemove(images, Files) # {},
                          ![t].pc = IF ToRemove(images, Files) # {} THEN "cl_delete"
                                    ELSE "cl_update"]
    /\ UNCHANGED <<dbVars, now, disk, overlayVars, sortVars, histVars, cacheVars, saved, write_lock>>

\* cleanup_missing_files: the DELETEs for the next id of to_remove, in the
\* write transaction the connection has or gets.
CleanupDelete(t) ==
    /\ thr[t].pc = "cl_delete"
    /\ write_lock \in {0, t}
    /\ thr' = [thr EXCEPT ![t].in_tx = TRUE,
                          ![t].tx = DeleteRows(IF thr[t].in_tx THEN thr[t].tx ELSE DB,
                                               Head(thr[t].remaining)),
                          ![t].removed = thr[t].removed + 1,
                          ![t].remaining = Tail(thr[t].remaining),
                          ![t].pc = IF Len(thr[t].remaining) = 1 THEN "cl_update"
                                    ELSE "cl_delete"]
    /\ write_lock' = t
    /\ UNCHANGED <<dbVars, now, disk, overlayVars, sortVars, histVars, cacheVars, saved>>

\* cleanup_missing_files: the UPDATE of current_position when to_remove is
\* not empty, then commit and return removed.
CleanupUpdate(t) ==
    /\ thr[t].pc = "cl_update"
    /\ write_lock \in {0, t}
    /\ LET db == IF thr[t].in_tx THEN thr[t].tx ELSE DB
       IN  \E newcur \in MostRecentOrNull(db.images, Null) :
              LET newdb == IF thr[t].any_removed THEN UpdateCurrentPosition(db, newcur)
                           ELSE db
              IN  /\ SetDB(newdb)
                  /\ thr' = [thr EXCEPT ![t] = Finished(thr[t], thr[t].removed, "none",
                                                        IF thr[t].stmt_failed THEN 1 ELSE 0,
                                                        thr[t].stmt_failed, newdb # DB)]
    /\ write_lock' = 0
    /\ UNCHANGED <<now, disk, overlayVars, sortVars, histVars, cacheVars, saved>>

\* The write transaction is held by another connection for longer than the
\* busy timeout: the statement fails with "database is locked".
\* set_current_image returns False and add_image None.  In
\* cleanup_missing_files the loop logs the error and goes on with the next
\* id; at the UPDATE the error ends the call with 0.
BusyTimeout(t) ==
    /\ thr[t].pc \in {"add_write", "set_write", "cl_delete", "cl_update"}
    /\ write_lock \notin {0, t}
    /\ now < MaxBusyClock
    /\ now' = now + 1
    /\ thr' = [thr EXCEPT ![t] =
                  IF thr[t].pc = "cl_delete"
                  THEN [thr[t] EXCEPT !.stmt_failed = TRUE,
                                      !.remaining = Tail(thr[t].remaining),
                                      !.pc = IF Len(thr[t].remaining) = 1 THEN "cl_update"
                                             ELSE "cl_delete"]
                  ELSE Finished(thr[t], Null, "locked", 1, TRUE, FALSE)]
    /\ UNCHANGED <<dbVars, disk, overlayVars, sortVars, histVars, cacheVars, saved, write_lock>>

\* Threads adding images and setting the current image, each thread making up
\* to MaxCalls calls.  The clock advances only by the busy waits, which are
\* followed up to the second MaxBusyClock, so calls that do not wait fall
\* into the same second.
NextConcAdd ==
    \/ \E t \in Threads, p \in CatalogPaths : ThreadCall(t, "add_image", p, Null)
    \/ \E t \in Threads : ThreadCall(t, "set_current_image", NoPath, 1)
    \/ \E t \in Threads, locked \in BOOLEAN : GetConnection(t, locked)
    \/ \E t \in Threads : AddSelect(t)
    \/ \E t \in Threads : AddWrite(t)
    \/ \E t \in Threads : AddNested(t)
    \/ \E t \in Threads : SetWrite(t)
    \/ \E t \in Threads : BusyTimeout(t)

SpecConcAdd == Init /\ [][NextConcAdd]_vars

\* Threads calling every mutating method, over a history folder that holds
\* some of the files.
InitConc ==
    /\ InitApp
    /\ disk0 = {}
    /\ \E S \in SUBSET CatalogPaths : disk = [p \in S |-> p]

NextConc ==
    \/ \E t \in Threads, p \in CatalogPaths : ThreadCall(t, "add_image", p, Null)
    \/ \E t \in Threads : ThreadCall(t, "set_current_image", NoPath, 1)
    \/ \E t \in Threads : ThreadCall(t, "cleanup_missing_files", NoPath, Null)
    \/ \E t \in Threads, locked \in BOOLEAN : GetConnection(t, locked)
    \/ \E t \in Threads : AddSelect(t)
    \/ \E t \in Threads : AddWrite(t)
    \/ \E t \in Threads : AddNested(t)
    \/ \E t \in Threads : SetWrite(t)
    \/ \E t \in Threads : CleanupSelect(t)
    \/ \E t \in Threads : CleanupDelete(t)
    \/ \E t \in Threads : CleanupUpdate(t)
    \/ \E t \in Threads : BusyTimeout(t)

SpecConc == InitConc /\ [][NextConc]_vars

TypeOK ==
    /\ DOMAIN images \subseteq 1..seq
    /\ seq \in 0..MaxImages
    /\ now \in 0..Max2(MaxClock, MaxBusyClock)

(***************************************************************************)
(* The navigation order as a graph.                                        *)
(***************************************************************************)
Ids == 1..seq

\* x -> y: x.next_id = y or y.prev_id = x.
Edge(x, y) ==
    \/ x \in DOMAIN navigation_order /\ navigation_order[x].next_id = y
    \/ y \in DOMAIN navigation_order /\ navigation_order[y].prev_id = x

Successors(x) == {y \in Ids : Edge(x, y)}
Predecessors(y) == {x \in Ids : Edge(x, y)}

\* The nodes reachable from the set S in at most k steps.
RECURSIVE ReachFrom(_, _)
ReachFrom(S, k) ==
    IF k = 0 THEN S
    ELSE ReachFrom(S \cup UNION {Successors(x) : x \in S}, k - 1)

NoCycle == \A x \in Ids : x \notin ReachFrom(Successors(x), seq)

\* C1: after any sequence of add_image calls (inserts and re-adds) the
\* navigation order has no cycle, every node has at most one predecessor and
\* at most one successor, and an image just inserted is linked after the
\* tail, the image inserted before it.
C1_SinglePath ==
    /\ NoCycle
    /\ \A x \in Ids : Cardinality(Successors(x)) <= 1 /\ Cardinality(Predecessors(x)) <= 1
    /\ (recent # <<>> /\ seq > 1) =>
            /\ navigation_order[seq].prev_id = seq - 1
            /\ navigation_order[seq - 1].next_id = seq

\* C2: current_position.image_id is NULL or the id of a row of images.
C2_CurrentValid ==
    current_position = Null \/ current_position \in DOMAIN images

\* C3: add_image of a path that has a row returns the id of that row, the id
\* the inserting call returned; the path keeps exactly one row, no
\* navigation_order row is created and no prev_id/next_id changes.
C3_AddImageIdempotent ==
    [][\A p \in CatalogPaths :
          AddImage(p) =>
              IF IdOfPath(images, p) # Null
              THEN /\ lastCall'.ret = IdOfPath(images, p)
                   /\ DOMAIN images' = DOMAIN images
                   /\ Cardinality({i \in DOMAIN images' : images'[i].file_path = p}) = 1
                   /\ navigation_order' = navigation_order
              ELSE /\ lastCall'.ret # Null
                   /\ lastCall'.ret = IdOfPath(images', p)]_vars

\* Witness of C3: the last call re-added the path of an image that is older
\* than a later insert, and its timestamp is now the newer one.
C3_Witness ==
    /\ lastCall.op = "add_image"
    /\ lastCall.ret # Null
    /\ recent = <<>>
    /\ \E j \in DOMAIN images :
          j > lastCall.ret /\ images[j].timestamp < images[lastCall.ret].timestamp

\* C4: for three images A, B, C inserted consecutively,
\* get_adjacent_image(B, 'next') is C and get_adjacent_image(B, 'prev') is A.
C4_NavigationSymmetry ==
    Len(recent) = 3 =>
        /\ GetAdjacentImage(DB, recent[2], "next") = {Row(images, recent[3])}
        /\ GetAdjacentImage(DB, recent[2], "prev") = {Row(images, recent[1])}

\* C5: after A, B, C are inserted in that order through the overlay
\* (add_image, then set_current_image), the current image is C, and two
\* successive navigate('prev') calls show B and then A, each moving
\* current_position to the image shown.
C5_NavigatePrevScenario ==
    (Len(recent) = 3 /\ \A i \in 1..3 : images[recent[i]].file_path \in Files) =>
        /\ prevs = <<>> => GetCurrentImage(DB) = Row(images, recent[3])
        /\ Len(prevs) >= 1 =>
              prevs[1] = [shown |-> images[recent[2]].file_path, current |-> recent[2]]
        /\ Len(prevs) >= 2 =>
              prevs[2] = [shown |-> images[recent[1]].file_path, current |-> recent[1]]

\* C6: when the current image is the head of the navigation order and
\* another image exists, navigate('prev') finds no image
\* (get_adjacent_image returns None) and changes neither current_position
\* nor the displayed image.
C6_PrevAtHead ==
    [][(/\ Navigate("prev")
        /\ current_position \in DOMAIN images
        /\ current_position \in DOMAIN navigation_order
        /\ navigation_order[current_position].prev_id = Null
        /\ Cardinality(DOMAIN images) >= 2)
       => /\ GetAdjacentImage(DB, current_position, "prev") = {None}
          /\ current_position' = current_position
          /\ original_image' = original_image]_vars

\* C7: when cleanup_missing_files runs on a chain A-B-C of which only B's
\* file is missing, it returns 1, links A and C to each other, and leaves
\* no navigation_order row that names B.
C7_CleanupRelinks ==
    [][\A a, b, c \in Ids :
          (/\ CleanupMissingFiles
           /\ {a, b, c} \subseteq DOMAIN navigation_order
           /\ a # b /\ b # c /\ a # c
           /\ navigation_order[a].next_id = b /\ navigation_order[b].prev_id = a
           /\ navigation_order[b].next_id = c /\ navigation_order[c].prev_id = b
           /\ ToRemove(images, Files) = {b})
          => /\ lastCall'.ret = 1
             /\ navigation_order'[a].next_id = c
             /\ navigation_order'[c].prev_id = a
             /\ \A x \in DOMAIN navigation_order' :
                   /\ x # b
                   /\ navigation_order'[x].prev_id # b
                   /\ navigation_order'[x].next_id # b]_vars

\* C8: when cleanup_missing_files removes the record current_position points
\* at, current_position afterwards is the most recent surviving record, or
\* NULL when none survives.
C8_CleanupRepointsCurrent ==
    [][(CleanupMissingFiles /\ current_position \in ToRemove(images, Files))
          => current_position' \in MostRecentOrNull(images', Null)]_vars

\* The contents on disk.
Contents == {disk[q] : q \in Files}

\* C9: when the Sort run is through, every file content that was on disk
\* before it is still on disk under some name.
C9_NoFileLost ==
    sort_pc = "done" => disk0 \subseteq Contents

\* The image files of the directory d that are not temporary (_T) files,
\* which the rename pass skips.
ImagesIn(d) ==
    {q \in Files : q.dir = d /\ q.tmp = 0 /\ ~q.temp
                   /\ q.ext \in {"png", "jpg", "jpeg", "gif", "bmp"}}

\* C10: when the Sort run is through, the image files of each directory carry
\* 4-digit indices that form the dense sequence 0000..n-1, none twice.
C10_DenseSequence ==
    sort_pc = "done" =>
        \A d \in 1..MaxDirs :
            /\ \A q \in ImagesIn(d) : q.k = "pad"
            /\ {q.n : q \in ImagesIn(d)} = 0..(Cardinality(ImagesIn(d)) - 1)
            /\ \A q, r \in ImagesIn(d) : q.n = r.n => q = r

\* C11: the catalog paths all named files on disk when Sort started (so
\* InitSort); when sort_history_files ends with the success message, every
\* images.file_path names a file on disk.
C11_CatalogPathsExist ==
    sort_pc = "success" => \A i \in DOMAIN images : images[i].file_path \in Files

\* C12: a save of a valid image into a month directory whose files use all
\* the counters 0..CounterLimit returns no path, writes no file and leaves every
\* file as it was; when a counter of that range is unused the save returns a
\* path with an unused counter of that range, a new file is written under
\* it and every other file is as it was.
C12_CapacityBoundary ==
    [][\A file_type \in {"png", "gif"}, is_temporary \in BOOLEAN :
          SaveImage(TRUE, file_type, is_temporary) =>
              IF (0..CounterLimit) \subseteq UsedCounters(Files, 1)
              THEN /\ lastCall'.path = NoPath
                   /\ disk' = disk
              ELSE /\ lastCall'.path # NoPath
                   /\ lastCall'.path.n \in (0..CounterLimit) \ UsedCounters(Files, 1)
                   /\ lastCall'.path \notin Files
                   /\ DOMAIN disk' = Files \cup {lastCall'.path}
                   /\ \A q \in Files : disk'[q] = disk[q]]_vars

\* Witness of C12: a save was refused in a directory whose files use every
\* counter, after an earlier save took the last free counter, the largest.
C12_Witness ==
    /\ lastCall.op = "save_image"
    /\ lastCall.path = NoPath
    /\ (0..CounterLimit) \subseteq UsedCounters(Files, 1)
    /\ \E q \in Files : q.n = CounterLimit /\ (q.ext = "gif" \/ q.temp)

\* C13: when add_image inserts a new path while current_position.image_id
\* is NULL, current_position.image_id is the new id when add_image returns.
C13_AddSetsNullCurrent ==
    [][\A p \in CatalogPaths :
          (AddImage(p) /\ IdOfPath(images, p) = Null /\ current_position = Null)
              => /\ lastCall'.ret # Null
                 /\ current_position' = lastCall'.ret]_vars

\* C14: set_current_image(image_id) with an id that has no row in images
\* returns False and leaves current_position as it was; it returns True only
\* when the id has a row.
C14_SetCurrentUnknownId ==
    [][\A i \in 1..MaxImages :
          SetCurrentImage(i) =>
              IF i \in DOMAIN images
              THEN lastCall'.ret = 1
              ELSE lastCall'.ret = 0 /\ current_position' = current_position]_vars

\* C15: a call that fails because the database is locked has attempted the
\* locked operation three times, waiting 100 ms after the first attempt and
\* 200 ms after the second, and fails after the third attempt.
C15_RetryThenBusy ==
    \A t \in Threads :
        (thr[t].pc = "idle" /\ thr[t].err = "locked") =>
            /\ thr[t].tries = max_retries
            /\ thr[t].slept = <<retry_delay, 2 * retry_delay>>

\* C16: add_image, set_current_image and cleanup_missing_files are
\* all-or-nothing: a call of which a statement failed has committed no
\* change of images, navigation_order or current_position.
C16_AllOrNothing ==
    \A t \in Threads :
        (thr[t].pc = "idle" /\ thr[t].stmt_failed) => ~thr[t].committed

\* No call is under way.
Quiescent == write_lock = 0 /\ \A t \in Threads : thr[t].pc = "idle"

\* C17: add_image calls of two threads for distinct new paths are
\* serialized (one write transaction at a time), and once they have returned
\* the navigation order is a single chain that holds every image exactly once.
C17_ConcurrentAddsChain ==
    /\ Cardinality({t \in Threads : thr[t].in_tx}) <= 1
    /\ Quiescent =>
          /\ DOMAIN navigation_order = DOMAIN images
          /\ NoCycle
          /\ \A x \in Ids : Cardinality(Successors(x)) <= 1 /\ Cardinality(Predecessors(x)) <= 1
          /\ Cardinality({x \in DOMAIN images : Predecessors(x) = {}}) <= 1

SwapStep ==
    \/ sort_pc = "rename" /\ sort_pc' = "swap_occupant_moved"
    \/ sort_pc = "swap_occupant_moved"
    \/ sort_pc = "swap_source_moved"

\* C19: over every step of a swap each file content that was on disk before
\* the step, the occupant's and the source's among them, is on disk after
\* it: at no point of the swap, and not after it, is either without a copy.
C19_SwapKeepsCopies ==
    [][SwapStep => Contents \subseteq Contents']_vars

\* C20: get_adjacent_image(id, direction) for an id without a
\* navigation_order row returns a record of the greatest timestamp among
\* the records other than id, or None when there is no other record, never
\* the record id; and for an id that has its navigation_order row the
\* fallback is not taken: the result is the linked record, or None when the
\* link names no record.
C20_FallbackOnlyWithoutLinkRow ==
    \A id \in 1..MaxImages, direction \in {"prev", "next"} :
        LET result == GetAdjacentImage(DB, id, direction)
            link == IF direction = "next" THEN navigation_order[id].next_id
                    ELSE navigation_order[id].prev_id
        IN  /\ \A r \in result : r.id # id
            /\ IF id \notin DOMAIN navigation_order
               THEN result = IF DOMAIN images \ {id} = {} THEN {None}
                              ELSE {Row(images, i) : i \in MostRecentExcept(images, id)}
               ELSE result = IF link \in DOMAIN images THEN {Row(images, link)} ELSE {None}

\* C21: get_current_image returns the record of images whose id is
\* current_position.image_id whenever the pointer is not NULL and the record
\* exists, and returns None only when the pointer is NULL or the record is
\* absent.
C21_CurrentImageReturned ==
    /\ (current_position # Null /\ current_position \in DOMAIN images)
          => GetCurrentImage(DB) = Row(images, current_position)
    /\ GetCurrentImage(DB) = None
          => (current_position = Null \/ current_position \notin DOMAIN images)

\* C22: in every state reached by showing images, navigating through the
\* cache (hits included) and running preloads, image_cache holds at most
\* cache_size entries.
C22_CacheBounded ==
    Cardinality(DOMAIN image_cache) <= cache_size

\* C23: at every navigation no 'next' entry is in image_cache that was
\* cached before add_image last linked a new tail: those entries have been
\* dropped by then, so none of them can be served.
C23_StaleNextDropped ==
    [][(\E d \in {"prev", "next"} : NavigateToAdjacent(d)) => stale = {}]_vars

\* C24: a preload scheduled for an anchor that is no longer the current
\* image when its timer fires is discarded: it adds no entry to image_cache
\* and removes none.
C24_LatePreloadDiscarded ==
    [][(/\ PreloadAdjacentImages
        /\ Head(pending) # CurrentAnchor
        /\ Head(pending) # current_file_path)
       => image_cache' = image_cache]_vars

\* The counters of the numeric stems of a directory, a _T suffix removed,
\* whatever follows the stem.
StemCounters(files, d) ==
    {q.n : q \in {f \in files : f.dir = d /\ f.tmp = 0 /\ f.k \in {"pad", "raw"}}}

\* The counters of the numeric stems of the files of a directory whose name
\* has an extension.
DottedStemCounters(files, d) ==
    {q.n : q \in {f \in files : f.dir = d /\ f.tmp = 0 /\ f.k \in {"pad", "raw"} /\ f.ext # ""}}

\* The path save_image returned names the lowest counter outside used.
LowestUnused(path, used, file_type, is_temporary) ==
    /\ path = Pth(1, "pad", path.n, is_temporary, file_type)
    /\ path.n \in (0..CounterLimit) \ used
    /\ \A c \in 0..CounterLimit : c < path.n => c \in used

UpdateFails(imgs, old_path, new_path) ==
    LET i == IdOfPath(imgs, old_path)
    IN  /\ i # Null
        /\ \E j \in DOMAIN imgs : j # i /\ imgs[j].file_path = new_path

\* The position of the first UPDATE of the loop over renamed that fails,
\* from position i on with the rows imgs; 0 when none fails.
RECURSIVE FirstFailure(_, _, _)
FirstFailure(imgs, renamed, i) ==
    IF i > Len(renamed) THEN 0
    ELSE IF UpdateFails(imgs, renamed[i][1], renamed[i][2]) THEN i
    ELSE FirstFailure(UpdateFilePath(imgs, renamed[i][1], renamed[i][2]), renamed, i + 1)

\* C26: when an UPDATE of a file_path fails in the run of the Sort button
\* after files were moved, the rows are as the updates before the failing
\* one left them (no later update is applied) and the run does not end with
\* the success message.
C26_FailedUpdateAborts ==
    [][(SortUpdateDatabase /\ FirstFailure(images, renamed_files, 1) # 0)
          => /\ sort_pc' # "success"
             /\ images' = UpdateDatabase(images,
                              SubSeq(renamed_files, 1, FirstFailure(images, renamed_files, 1) - 1), 1)]_vars

\* C27: the links of navigation_order are mutually inverse, x.next_id = y
\* exactly when y.prev_id = x for all rows x and y, and every prev_id and
\* next_id that is not NULL is the id of a row of images.
C27_LinksInverse ==
    /\ \A x \in DOMAIN navigation_order, y \in DOMAIN navigation_order :
          navigation_order[x].next_id = y <=> navigation_order[y].prev_id = x
    /\ \A x \in DOMAIN navigation_order :
          /\ navigation_order[x].prev_id # Null => navigation_order[x].prev_id \in DOMAIN images
          /\ navigation_order[x].next_id # Null => navigation_order[x].next_id \in DOMAIN images

\* C28: an add_image call that found no row for its path, while another
\* add_image call has inserted the path before its own write, returns the
\* id of that row (the id the inserting call returned, not None), and the
\* path has exactly one images row, which has a navigation_order row.
C28_ConcurrentAddSameId ==
    [][\A t \in Threads :
          (/\ AddWrite(t)
           /\ thr[t].existing = Null
           /\ IdOfPath(images, thr[t].path) # Null)
          => /\ thr'[t].ret = IdOfPath(images, thr[t].path)
             /\ thr'[t].ret # Null
             /\ Cardinality({i \in DOMAIN images' : images'[i].file_path = thr[t].path}) = 1
             /\ IdOfPath(images', thr[t].path) \in DOMAIN navigation_order']_vars

\* C29: of the save_image calls of the threads, no two return the same
\* file path and none replaces a file that another call has written.
C29_ConcurrentSavesDistinct ==
    /\ \A i \in DOMAIN saved, j \in DOMAIN saved : i # j => saved[i].path # saved[j].path
    /\ \A i \in DOMAIN saved : ~saved[i].replaced

\* C30: a Sort run started directly after a run that went through, with no
\* file added or removed in between, plans no rename (the plan of its first
\* pass is empty) and moves no file.
C30_ReconcileIdempotent ==
    [][/\ SortAgain => path_mapping' = <<>>
       /\ lastCall.op = "sort_again" => disk' = disk]_vars

====
